---- MODULE Spec2Model ----
(***************************************************************************)
(* Loan calculator (loan_calculator.py): the validator, the payment        *)
(* solver, the payoff simulator, the bisection rate solver and the         *)
(* schedule generator, driven by run_calculation.                          *)
(*                                                                         *)
(* Numbers.  The program computes in binary floating point.  The model     *)
(* computes the same expressions exactly, over rationals:                  *)
(*   - money is an integer number of mills (1/1000 dollar), so that an     *)
(*     input such as 100.004 can be typed; a value rounded to 2 decimals   *)
(*     is a multiple of MillsPerCent;                                      *)
(*   - a rate is a fraction num/den of percent;                            *)
(*   - intermediate products exceed 32 bits and are held as naturals in    *)
(*     base BASE (little-endian sequences of limbs).                       *)
(* Where the exact value sits on a boundary that floating point error      *)
(* decides (a rounding tie, "payment <= interest" with equality,           *)
(* "|estimated - payment| < 0.01" with a difference of exactly one cent)   *)
(* the model allows both outcomes.                                         *)
(***************************************************************************)
EXTENDS Integers, Sequences, FiniteSets, TLC

\* Python's None, and a float: values that may be absent are tagged records
None == [kind |-> "None"]
Float(x) == [kind |-> "float", v |-> x]

(***************************************************************************)
(* Naturals of any size, for the products the float expressions form:      *)
(* <<>> is 0, a[1] is the least significant limb, limbs are in 0..BASE-1.  *)
(***************************************************************************)
BASE == 10^3

RECURSIVE BigOf(_)
BigOf(n) == IF n = 0 THEN <<>> ELSE <<n % BASE>> \o BigOf(n \div BASE)

RECURSIVE BigToInt(_)
BigToInt(a) == IF a = <<>> THEN 0 ELSE a[1] + BASE * BigToInt(Tail(a))

RECURSIVE BigTrim(_)
BigTrim(a) ==
    IF Len(a) > 0 /\ a[Len(a)] = 0 THEN BigTrim(SubSeq(a, 1, Len(a) - 1)) ELSE a

Limb(a, i) == IF i <= Len(a) THEN a[i] ELSE 0

\* carries of a vector of naturals moved up, pass by pass, until every entry is a limb
RECURSIVE Norm(_)
Norm(v) ==
    IF \A i \in 1..Len(v) : v[i] < BASE THEN BigTrim(v)
    ELSE Norm([i \in 1..(Len(v) + 1) |->
                 (Limb(v, i) % BASE) + (IF i > 1 THEN v[i - 1] \div BASE ELSE 0)])

\* borrows of a vector of integers in -BASE..BASE moved up (the value is >= 0)
RECURSIVE NormSub(_)
NormSub(v) ==
    IF \A i \in 1..Len(v) : v[i] >= 0 THEN BigTrim(v)
    ELSE NormSub([i \in 1..Len(v) |->
                    (IF v[i] < 0 THEN v[i] + BASE ELSE v[i])
                    - (IF i > 1 /\ v[i - 1] < 0 THEN 1 ELSE 0)])

Max(x, y) == IF x >= y THEN x ELSE y
Min(x, y) == IF x <= y THEN x ELSE y

BigAdd(a, b) == Norm([i \in 1..Max(Len(a), Len(b)) |-> Limb(a, i) + Limb(b, i)])

\* a - b for a >= b
BigSub(a, b) == NormSub([i \in 1..Len(a) |-> a[i] - Limb(b, i)])

\* a * k for 0 <= k <= BASE
BigMulSmall(a, k) == Norm([i \in 1..Len(a) |-> a[i] * k])

\* the sum of a[j] * b[i + 1 - j] over j in lo..hi: column i of the product
RECURSIVE Column(_, _, _, _, _)
Column(a, b, i, lo, hi) ==
    IF lo > hi THEN 0 ELSE a[lo] * b[i + 1 - lo] + Column(a, b, i, lo + 1, hi)

\* a * b, the recursion running over the limbs of the shorter factor
BigMulShort(a, b) ==
    Norm([i \in 1..(Len(a) + Len(b) - 1) |->
            Column(a, b, i, Max(1, i + 1 - Len(b)), Min(i, Len(a)))])

BigMul(a, b) ==
    IF a = <<>> \/ b = <<>> THEN <<>>
    ELSE IF Len(a) <= Len(b) THEN BigMulShort(a, b) ELSE BigMulShort(b, a)

RECURSIVE BigCmpR(_, _, _)
BigCmpR(a, b, i) ==
    IF a[i] > b[i] THEN 1
    ELSE IF a[i] < b[i] THEN -1
    ELSE BigCmpR(a, b, i - 1)

\* -1, 0, 1 as a < b, a = b, a > b
BigCmp(a, b) ==
    IF Len(a) > Len(b) THEN 1
    ELSE IF Len(a) < Len(b) THEN -1
    ELSE IF a = b THEN 0
    ELSE BigCmpR(a, b, Len(a))

RECURSIVE BigPow(_, _)
BigPow(a, n) == IF n = 0 THEN <<1>> ELSE BigMul(a, BigPow(a, n - 1))

\* the greatest d in lo..hi with d * b <= r (given lo * b <= r)
RECURSIVE DigitSearch(_, _, _, _)
DigitSearch(r, b, lo, hi) ==
    IF lo = hi THEN lo
    ELSE LET mid == (lo + hi + 1) \div 2
         IN  IF BigCmp(BigMulSmall(b, mid), r) <= 0
             THEN DigitSearch(r, b, mid, hi)
             ELSE DigitSearch(r, b, lo, mid - 1)

\* long division of a by b # 0 from limb i of a down, rem the remainder so far
RECURSIVE BigDivR(_, _, _, _)
BigDivR(a, b, i, rem) ==
    IF i = 0 THEN [q |-> <<>>, r |-> rem]
    ELSE LET cur  == BigTrim(<<a[i]>> \o rem)
             d    == IF BigCmp(cur, b) < 0 THEN 0 ELSE DigitSearch(cur, b, 1, BASE - 1)
             rest == BigDivR(a, b, i - 1, BigSub(cur, BigMulSmall(b, d)))
         IN  [q |-> Append(rest.q, d), r |-> rest.r]

\* [q, r] with a = q * b + r and r < b; the top Len(b) - 1 limbs of a are below b
BigDivMod(a, b) ==
    IF Len(a) < Len(b) THEN [q |-> <<>>, r |-> a]
    ELSE LET top == Len(a) - Len(b) + 1
             x   == BigDivR(a, b, top, SubSeq(a, top + 1, Len(a)))
         IN  [q |-> BigTrim(x.q), r |-> x.r]

\* the integers nearest to a / b (b # 0): one, or both neighbours on a tie, which
\* round() resolves by the binary value of the float
RoundDiv(a, b) ==
    LET x  == BigDivMod(a, b)
        q  == BigToInt(x.q)
        c2 == BigCmp(BigMulSmall(x.r, 2), b)
    IN  IF c2 < 0 THEN {q} ELSE IF c2 > 0 THEN {q + 1} ELSE {q, q + 1}

(***************************************************************************)
(* Units.  Money is in mills; round(x, 2) yields a whole number of cents.  *)
(***************************************************************************)
MillsPerCent == 10
MillsPerDollar == 1000

\* round(x, 2) of the money amount a / b mills (a, b naturals), in mills
Round2(a, b) == {MillsPerCent * c : c \in RoundDiv(a, BigMulSmall(b, MillsPerCent))}

\* monthly_rate = (interest_rate / 100) / 12 as the fraction n / d; a rate is
\* [num, den] percent, held as naturals of any size
MonthlyRate(rate) == [n |-> rate.num, d |-> BigMul(rate.den, BigOf(100 * 12))]

\* a rate typed by the user (num / den percent, small integers)
Rate(n, d) == [kind |-> "percent", num |-> n, den |-> d]

\* the same rate as the solvers take it
RateOf(r) == [num |-> BigOf(r.num), den |-> BigOf(r.den)]

(***************************************************************************)
(* Dates: [year, month, day], ordered as datetime.date orders them.        *)
(***************************************************************************)
DateLE(a, b) ==
    \/ a.year < b.year
    \/ a.year = b.year /\ a.month < b.month
    \/ a.year = b.year /\ a.month = b.month /\ a.day <= b.day

Date(y, m, d) == [kind |-> "date", year |-> y, month |-> m, day |-> d]

\* a non-empty end_date that is no datetime.date
NotADate == [kind |-> "text"]

\* Mutation: the year is not carried when December is left.
increment_month_same_year(date) == Date(date.year, (date.month % 12) + 1, 1)

increment_month(date) ==
    Date(date.year + (date.month \div 12), (date.month % 12) + 1, 1)

\* months = (end_date.year - today.year) * 12 + (end_date.month - today.month)
MonthsBetween(today_, end) ==
    (end.year - today_.year) * 12 + (end.month - today_.month)

(***************************************************************************)
(* validate_inputs: the message of the first rule that fails, or NoError.  *)
(***************************************************************************)
NoError == "None"
SentinelPayment == 1000000
SentinelRate == 100

\* Mutation: the payment rule is tried before the balance rule.
validate_inputs_payment_first(balance_, monthly_payment_, interest_rate_, end_date_, today_) ==
    LET temp_mp == IF monthly_payment_.kind # "None" THEN monthly_payment_.v
                   ELSE SentinelPayment * MillsPerDollar
        temp_ir == IF interest_rate_.kind # "None" THEN interest_rate_.num
                   ELSE SentinelRate
    IN  IF temp_mp <= 0 THEN "Monthly Payment must be greater than zero."
        ELSE IF balance_ <= 0 THEN "Balance must be a positive number."
        ELSE IF temp_ir <= 0 THEN "Interest Rate must be greater than zero."
        ELSE IF end_date_.kind # "None" /\ end_date_.kind # "date"
             THEN "Invalid End Date format."
        ELSE IF end_date_.kind # "None" /\ DateLE(end_date_, today_)
             THEN "End Date must be in the future."
        ELSE NoError

validate_inputs(balance_, monthly_payment_, interest_rate_, end_date_, today_) ==
    LET temp_mp == IF monthly_payment_.kind # "None" THEN monthly_payment_.v
                   ELSE SentinelPayment * MillsPerDollar
        temp_ir == IF interest_rate_.kind # "None" THEN interest_rate_.num
                   ELSE SentinelRate
    IN  IF balance_ <= 0 THEN "Balance must be a positive number."
        ELSE IF temp_mp <= 0 THEN "Monthly Payment must be greater than zero."
        ELSE IF temp_ir <= 0 THEN "Interest Rate must be greater than zero."
        ELSE IF end_date_.kind # "None" /\ end_date_.kind # "date"
             THEN "Invalid End Date format."
        ELSE IF end_date_.kind # "None" /\ DateLE(end_date_, today_)
             THEN "End Date must be in the future."
        ELSE NoError

(***************************************************************************)
(* calculate_monthly_payment: the annuity formula, rounded to cents.       *)
(* With monthly_rate = n / d,                                              *)
(*   balance * rate / (1 - (1 + rate)^-months)                             *)
(*     = balance * n * (d + n)^months / (d * ((d + n)^months - d^months)). *)
(* The set of the values round() may return (two on a tie).                *)
(***************************************************************************)
\* Mutation: the payment is rounded up to the next cent.
CeilPayment(a, b) ==
    LET x == BigDivMod(a, BigMulSmall(b, MillsPerCent))
    IN  {MillsPerCent * (BigToInt(x.q) + (IF x.r = <<>> THEN 0 ELSE 1))}

\* "return round(payment, 2)"
RoundPayment(a, b) == Round2(a, b)

calculate_monthly_payment(balance_, rate, end_date_, today_) ==
    LET months == MonthsBetween(today_, end_date_)
        r      == MonthlyRate(rate)
        up     == BigPow(BigAdd(r.d, r.n), months)
        num    == BigMul(BigMul(BigOf(balance_), r.n), up)
        den    == BigMul(r.d, BigSub(up, BigPow(r.d, months)))
    IN  IF months <= 0 THEN {None}
        ELSE IF r.n = <<>>
             THEN {Float(p) : p \in RoundPayment(BigOf(balance_), BigOf(months))}
        ELSE {Float(p) : p \in RoundPayment(num, den)}

(***************************************************************************)
(* The program state: the inputs run_calculation gathers from the fields,  *)
(* the position in the calculation, and the locals of the loops.           *)
(***************************************************************************)
VARIABLES
    today,               \* datetime.date.today()
    current_mode,        \* the mode set_mode selected
    balance,             \* float(entry_balance.get()), 0 when empty, in mills
    monthly_payment,     \* Float or None (field empty or disabled)
    interest_rate,       \* Rate or None (field empty or disabled)
    end_date,            \* Date, NotADate or None (field empty or disabled)
    pc,                  \* "ready", "end_date", "rate", "breakdown", "done"
    sim_balance,         \* calculate_end_date: balance
    current,             \* calculate_end_date: current
    count,               \* calculate_end_date: count
    low, high,           \* calculate_interest_rate: low, high as numerators over bden
    bden,                \* the common denominator of low and high
    iter,                \* calculate_interest_rate: iterations of the for loop done
    end_date_calc,       \* calculate_interest_breakdown: end_date_calc
    row_balance,         \* calculate_interest_breakdown: balance
    current_date,        \* calculate_interest_breakdown: current_date
    rows,                \* calculate_interest_breakdown: the rows appended to result
    total_interest_paid, \* calculate_interest_breakdown: total_interest_paid
    result,              \* what run_calculation shows
    solved               \* the inputs a reused payment was solved from, or None

vars == <<today, current_mode, balance, monthly_payment, interest_rate, end_date, pc,
          sim_balance, current, count, low, high, bden, iter, end_date_calc,
          row_balance, current_date, rows, total_interest_paid, result, solved>>

inputs == <<today, current_mode, balance, monthly_payment, interest_rate, end_date>>
simLocals == <<sim_balance, current, count>>
rateLocals == <<low, high, bden, iter>>
rowLocals == <<end_date_calc, row_balance, current_date, rows, total_interest_paid>>

Modes == {"Monthly Payment", "End Date", "Interest Rate", "Interest Breakdown"}

(***************************************************************************)
(* The inputs the model draws.  Text that float() or strptime reject ends  *)
(* run_calculation with an input error before any function is called, and *)
(* is not drawn.                                                           *)
(***************************************************************************)
MaxMonthsAhead == 3

\* the first day of the month k months after date
MonthsAfter(date, k) ==
    Date(date.year + ((date.month - 1 + k) \div 12), ((date.month - 1 + k) % 12) + 1, 1)

Todays == {Date(2026, 11, 20)}

Balances == {0, 100004, 1200000, 10000000, 24000000}

Payments == {None, Float(0), Float(1000), Float(10000), Float(100000), Float(200008)}

Rates == {None, Rate(0, 1), Rate(4, 1000), Rate(6, 1), Rate(12, 1), Rate(2400, 1)}

\* no date, today, a later day of this month, the months ahead
EndDates(t) ==
    {None, t, Date(t.year, t.month, 28)} \cup {MonthsAfter(t, k) : k \in 1..MaxMonthsAhead}

\* a horizon of 24 months is typed for the loan of 24000 at 6%
LongHorizon == 2 * 12
LongBalance == 24000 * MillsPerDollar
LongRate == Rate(6, 1)

\* a rate of 2400% is typed for the balance of 100.004, a rate of 0.004% for
\* the balance of 1200, a payment of 200.008 where the payment simulator runs
SmallBalance == 100 * MillsPerDollar + 4
HighRate == Rate(2400, 1)
SlowBalance == 1200 * MillsPerDollar
LowRate == Rate(4, 1000)
OddPayment == Float(200008)

\* a payment of 149 is typed for the schedule of 1200 at 6%
TiePayment == Float(149000)
TieRate == Rate(6, 1)

Fields ==
    [current_mode : Modes, balance : Balances, monthly_payment : Payments,
     interest_rate : Rates, end_date : UNION {EndDates(t) : t \in Todays}]
      \cup [current_mode : {"Interest Breakdown"}, balance : {SlowBalance},
            monthly_payment : {TiePayment}, interest_rate : {TieRate},
            end_date : {MonthsAfter(t, 1) : t \in Todays}]
      \cup [current_mode : {"Monthly Payment"}, balance : {LongBalance},
            monthly_payment : {None}, interest_rate : {LongRate},
            end_date : {MonthsAfter(t, LongHorizon) : t \in Todays}]

\* set_mode disables the field the mode solves for, and run_calculation reads a
\* disabled field as None
Enabled(f) ==
    /\ f.current_mode = "Monthly Payment" => f.monthly_payment = None
    /\ f.current_mode = "Interest Rate" => f.interest_rate = None
    /\ f.current_mode = "End Date" => f.end_date = None

\* check_fields_and_toggle_button shows the button that runs the calculation
\* only while every field the mode requires is filled
Required(f) ==
    /\ f.current_mode # "Monthly Payment" => f.monthly_payment # None
    /\ f.current_mode # "Interest Rate" => f.interest_rate # None
    /\ f.current_mode # "End Date" => f.end_date # None

\* the combinations of values the model draws
Typed(f) ==
    /\ f.interest_rate = HighRate => f.balance = SmallBalance
    /\ f.interest_rate = LowRate => f.balance = SlowBalance
    /\ f.monthly_payment = OddPayment => f.current_mode # "Interest Rate"
    /\ f.current_mode = "Interest Breakdown" /\ f.balance > 0
           => f.end_date \in {MonthsAfter(t, 1) : t \in Todays}

Locals ==
    /\ sim_balance = 0 /\ current = today /\ count = 0
    /\ low = <<>> /\ high = <<>> /\ bden = <<>> /\ iter = 0
    /\ end_date_calc = None /\ row_balance = 0 /\ current_date = today
    /\ rows = <<>> /\ total_interest_paid = 0
    /\ result = None
    /\ solved = None

Init ==
    /\ today \in Todays
    /\ \E f \in {g \in Fields : Enabled(g) /\ Required(g) /\ Typed(g)} :
         /\ current_mode = f.current_mode
         /\ balance = f.balance
         /\ monthly_payment = f.monthly_payment
         /\ interest_rate = f.interest_rate
         /\ end_date = f.end_date
    /\ pc = "ready"
    /\ Locals

(***************************************************************************)
(* run_calculation up to the call of the mode's function.  A validation    *)
(* error is shown and nothing is computed; a required field left empty     *)
(* reaches the function as None and raises there ("System Error").         *)
(***************************************************************************)
Error(msg) == [kind |-> "error", msg |-> msg]
Exception == [kind |-> "exception"]
NoSchedule == [kind |-> "message"]
Schedule == [kind |-> "schedule"]

max_months == 1200
BisectLow == 1
BisectHigh == 1000000
BisectDen == 10000
BisectIterations == 300

Finish(value) ==
    /\ result' = value
    /\ pc' = "done"
    /\ UNCHANGED <<inputs, simLocals, rateLocals, rowLocals, solved>>

\* calculate_end_date entered: the locals before the loop
EnterEndDate ==
    /\ sim_balance' = balance
    /\ current' = today
    /\ count' = 0
    /\ pc' = "end_date"

RunMonthlyPayment ==
    LET mp_for_calc == IF monthly_payment = None THEN Float(1 * MillsPerDollar)
                       ELSE monthly_payment
        error == validate_inputs(balance, mp_for_calc, interest_rate, end_date, today)
    IN  IF error # NoError THEN Finish(Error(error))
        ELSE IF end_date = None THEN Finish(Exception)
        ELSE IF MonthsBetween(today, end_date) <= 0 THEN Finish(None)
        ELSE IF interest_rate = None THEN Finish(Exception)
        ELSE \E p \in calculate_monthly_payment(balance, RateOf(interest_rate),
                                                end_date, today) : Finish(p)

RunEndDate ==
    LET ir_for_calc == IF interest_rate = None THEN Rate(1, 1) ELSE interest_rate
        error == validate_inputs(balance, monthly_payment, ir_for_calc, None, today)
    IN  IF error # NoError THEN Finish(Error(error))
        ELSE IF monthly_payment = None THEN Finish(Exception)
        ELSE IF monthly_payment.v <= 0 THEN Finish(None)
        ELSE IF interest_rate = None THEN Finish(Exception)
        ELSE /\ EnterEndDate
             /\ UNCHANGED <<inputs, rateLocals, rowLocals, result, solved>>

\* Mutation: only a negative horizon is turned away.
NegativeHorizon(months) == months < 0

\* "if months <= 0 or ...: return None"
NoHorizon(months) == months <= 0

\* "balance / months" raises ZeroDivisionError when months is 0, which
\* run_calculation reports as a system error
RunInterestRate ==
    LET ir_for_calc == IF interest_rate = None THEN Rate(1, 1) ELSE interest_rate
        error == validate_inputs(balance, monthly_payment, ir_for_calc, end_date, today)
        months == MonthsBetween(today, end_date)
    IN  IF error # NoError THEN Finish(Error(error))
        ELSE IF end_date = None THEN Finish(Exception)
        ELSE IF NoHorizon(months) THEN Finish(None)
        ELSE IF monthly_payment = None THEN Finish(Exception)
        ELSE IF monthly_payment.v <= 0 THEN Finish(None)
        ELSE IF months = 0 THEN Finish(Exception)
        ELSE IF monthly_payment.v * months <= balance THEN Finish(None)
        ELSE /\ low' = BigOf(BisectLow)
             /\ high' = BigOf(BisectHigh)
             /\ bden' = BigOf(BisectDen)
             /\ iter' = 0
             /\ pc' = "rate"
             /\ UNCHANGED <<inputs, simLocals, rowLocals, result, solved>>

\* Mutation: the schedule starts in the month of today.
FirstRowToday(t) == Date(t.year, t.month, 1)

\* "current_date = increment_month(datetime.date.today())"
FirstRowDate(t) == increment_month(t)

RunInterestBreakdown ==
    LET error == validate_inputs(balance, monthly_payment, interest_rate, end_date, today)
    IN  IF error # NoError THEN Finish(Error(error))
        ELSE IF interest_rate = None THEN Finish(Exception)
        ELSE IF monthly_payment = None THEN Finish(Exception)
        ELSE /\ current_date' = FirstRowDate(today)
             /\ total_interest_paid' = 0
             /\ rows' = <<>>
             /\ row_balance' = balance
             /\ end_date_calc' = None
             /\ IF monthly_payment.v <= 0
                THEN /\ result' = NoSchedule /\ pc' = "done" /\ UNCHANGED simLocals
                ELSE /\ EnterEndDate /\ UNCHANGED result
             /\ UNCHANGED <<inputs, rateLocals, solved>>

RunCalculation ==
    /\ pc = "ready"
    /\ \/ current_mode = "Monthly Payment" /\ RunMonthlyPayment
       \/ current_mode = "End Date" /\ RunEndDate
       \/ current_mode = "Interest Rate" /\ RunInterestRate
       \/ current_mode = "Interest Breakdown" /\ RunInterestBreakdown

(***************************************************************************)
(* calculate_end_date: one iteration of the while loop, and its return to  *)
(* the caller (run_calculation or calculate_interest_breakdown).           *)
(***************************************************************************)
\* balance = max(0, round(balance - (monthly_payment - balance * rate), 2)) with
\* rate = r.n / r.d: the values round() may give
NextBalance(bal, payment, r) ==
    LET grown == BigMul(BigOf(bal), BigAdd(r.d, r.n))
        paid  == BigMul(BigOf(payment), r.d)
    IN  IF BigCmp(grown, paid) <= 0 THEN {0} ELSE Round2(BigSub(grown, paid), r.d)

\* monthly_payment compared with interest = balance * rate: -1, 0, 1
PaymentVsInterest(bal, payment, r) ==
    BigCmp(BigMul(BigOf(payment), r.d), BigMul(BigOf(bal), r.n))

ReturnEndDate(value) ==
    IF current_mode = "End Date"
    THEN /\ result' = value
         /\ pc' = "done"
         /\ UNCHANGED <<inputs, simLocals, rateLocals, rowLocals, solved>>
    ELSE /\ end_date_calc' = value
         /\ IF value = None
            THEN result' = NoSchedule /\ pc' = "done"
            ELSE pc' = "breakdown" /\ UNCHANGED result
         /\ UNCHANGED <<inputs, simLocals, rateLocals, row_balance, current_date,
                        rows, total_interest_paid, solved>>

\* Mutation: the first iteration is checked like the others.
CheckedFromFirst == TRUE

\* "... and count > 0": the first iteration is exempt from the check
CheckedAfterFirst == count > 0

\* "if monthly_payment <= interest and count > 0: return None"; on equality the
\* float product decides
EndDateUnrepayable ==
    /\ pc = "end_date"
    /\ sim_balance > 0 /\ count < max_months
    /\ CheckedAfterFirst
    /\ PaymentVsInterest(sim_balance, monthly_payment.v,
                         MonthlyRate(RateOf(interest_rate))) <= 0
    /\ ReturnEndDate(None)

EndDateStep ==
    /\ pc = "end_date"
    /\ sim_balance > 0 /\ count < max_months
    /\ \/ ~CheckedAfterFirst
       \/ PaymentVsInterest(sim_balance, monthly_payment.v,
                            MonthlyRate(RateOf(interest_rate))) >= 0
    /\ sim_balance' \in NextBalance(sim_balance, monthly_payment.v,
                                    MonthlyRate(RateOf(interest_rate)))
    /\ current' = increment_month(current)
    /\ count' = count + 1
    /\ UNCHANGED <<inputs, pc, rateLocals, rowLocals, result, solved>>

\* Mutation: the date is returned when the cap is reached too.
ReturnAtCap == IF count <= max_months THEN current ELSE None

\* "return current if count < max_months else None"
ReturnValue == IF count < max_months THEN current ELSE None

EndDateReturn ==
    /\ pc = "end_date"
    /\ ~(sim_balance > 0 /\ count < max_months)
    /\ ReturnEndDate(ReturnValue)

(***************************************************************************)
(* calculate_interest_rate: one pass of the bisection loop.  low and high  *)
(* are numerators over the common denominator bden (percent), which        *)
(* doubles with every halving of the bracket.                              *)
(***************************************************************************)
Abs(x) == IF x < 0 THEN -x ELSE x

\* round(mid, 4), in ten-thousandths of a percent
RoundRate(mid) == RoundDiv(BigMulSmall(mid.num, BisectDen), mid.den)

\* Mutation: the tolerance is a dollar.
ConvergedWithinDollar(est, payment) == {Abs(est - payment) < MillsPerDollar}

\* "abs(estimated - monthly_payment) < 0.01": at exactly one cent the float
\* subtraction decides
Converged(est, payment) ==
    {Abs(est - payment) < MillsPerCent, Abs(est - payment) <= MillsPerCent}

RateStep ==
    /\ pc = "rate"
    /\ LET mid == [num |-> BigAdd(low, high), den |-> BigMulSmall(bden, 2)]
           ests == calculate_monthly_payment(balance, mid, end_date, today)
       IN  \E estimated \in ests :
             IF estimated = None
             THEN /\ result' = None /\ pc' = "done" /\ UNCHANGED rateLocals
             ELSE \E conv \in Converged(estimated.v, monthly_payment.v) :
                    IF conv
                    THEN /\ \E q \in RoundRate(mid) :
                              result' = IF q = 0 THEN None ELSE Rate(q, BisectDen)
                         /\ pc' = "done"
                         /\ UNCHANGED rateLocals
                    ELSE /\ IF estimated.v > monthly_payment.v
                            THEN high' = mid.num /\ low' = BigMulSmall(low, 2)
                            ELSE low' = mid.num /\ high' = BigMulSmall(high, 2)
                         /\ bden' = mid.den
                         /\ iter' = iter + 1
                         /\ IF iter + 1 = BisectIterations
                            THEN result' = None /\ pc' = "done"
                            ELSE UNCHANGED <<result, pc>>
    /\ UNCHANGED <<inputs, simLocals, rowLocals, solved>>

(***************************************************************************)
(* calculate_interest_breakdown: one pass of the row loop.  The record     *)
(* field "final" notes which branch of the if produced the row.            *)
(***************************************************************************)
\* Mutation: the interest is cut to whole cents.
FloorInterest(bal, r) ==
    {MillsPerCent * BigToInt(BigDivMod(BigMul(BigOf(bal), r.n),
                                       BigMulSmall(r.d, MillsPerCent)).q)}

\* Mutation: the whole payment is entered as principal.
PaymentAsPrincipal(bal, payment, r) == Round2(BigOf(payment), <<1>>)

\* round(monthly_payment - interest, 2), which may be negative
RoundPrincipal(bal, payment, r) ==
    LET paid == BigMul(BigOf(payment), r.d)
        int  == BigMul(BigOf(bal), r.n)
    IN  IF BigCmp(paid, int) >= 0
        THEN Round2(BigSub(paid, int), r.d)
        ELSE {-x : x \in Round2(BigSub(int, paid), r.d)}

RoundInterest(bal, r) == Round2(BigMul(BigOf(bal), r.n), r.d)

RoundMoney(x) == Round2(BigOf(x), <<1>>)

Row(date, payment, interest, principal, bal, final) ==
    [date |-> date, payment |-> payment, interest |-> interest,
     principal |-> principal, balance |-> bal, final |-> final]

BreakdownStep ==
    /\ pc = "breakdown"
    /\ IF row_balance > 0 /\ DateLE(current_date, end_date_calc)
       THEN LET r == MonthlyRate(RateOf(interest_rate))
                is_final_payment == /\ current_date.year = end_date_calc.year
                                    /\ current_date.month = end_date_calc.month
                final == is_final_payment \/ row_balance < monthly_payment.v
            IN  \E interest \in RoundInterest(row_balance, r) :
                \E principal_paid \in (IF final THEN RoundMoney(row_balance)
                        ELSE RoundPrincipal(row_balance, monthly_payment.v, r)) :
                \E payment \in (IF final
                        THEN Round2(BigMul(BigOf(row_balance), BigAdd(r.d, r.n)), r.d)
                        ELSE RoundMoney(monthly_payment.v)) :
                \E bal \in (IF final THEN {0}
                        ELSE NextBalance(row_balance, monthly_payment.v, r)) :
                   /\ row_balance' = bal
                   /\ total_interest_paid' = total_interest_paid + interest
                   /\ rows' = Append(rows, Row(current_date, payment, interest,
                                               principal_paid, bal, final))
                   /\ IF bal = 0
                      THEN /\ result' = Schedule /\ pc' = "done"
                           /\ UNCHANGED current_date
                      ELSE /\ current_date' = increment_month(current_date)
                           /\ UNCHANGED <<result, pc>>
       ELSE /\ result' = Schedule /\ pc' = "done"
            /\ UNCHANGED <<row_balance, total_interest_paid, rows, current_date>>
    /\ UNCHANGED <<inputs, simLocals, rateLocals, end_date_calc, solved>>

(***************************************************************************)
(* The user carries a payment solved in "Monthly Payment" mode into one of *)
(* the other modes (set_mode, then the same balance and the fields the new *)
(* mode leaves enabled).  solved remembers what the payment was solved     *)
(* for.                                                                    *)
(***************************************************************************)
Reuse ==
    /\ pc = "done"
    /\ current_mode = "Monthly Payment"
    /\ result.kind = "float"
    /\ \E mode \in Modes \ {"Monthly Payment"} :
         /\ current_mode' = mode
         /\ monthly_payment' = result
         /\ interest_rate' = IF mode = "Interest Rate" THEN None ELSE interest_rate
         /\ end_date' = IF mode = "End Date" THEN None ELSE end_date
    /\ solved' = [kind |-> "solved", rate |-> interest_rate, end_date |-> end_date]
    /\ result' = None
    /\ pc' = "ready"
    /\ UNCHANGED <<today, balance, simLocals, rateLocals, rowLocals>>

Next ==
    \/ RunCalculation
    \/ EndDateUnrepayable
    \/ EndDateStep
    \/ EndDateReturn
    \/ RateStep
    \/ BreakdownStep
    \/ Reuse

Spec == Init /\ [][Next]_vars

(***************************************************************************)
(* validate_inputs called on its own, with any object as the end date.     *)
(***************************************************************************)
Validate ==
    /\ pc = "validate"
    /\ LET error == validate_inputs(balance, monthly_payment, interest_rate, end_date, today)
       IN  result' = IF error = NoError THEN None ELSE Error(error)
    /\ pc' = "done"
    /\ UNCHANGED <<inputs, simLocals, rateLocals, rowLocals, solved>>

ValidatorInit ==
    /\ today \in Todays
    /\ current_mode \in Modes
    /\ balance \in Balances
    /\ monthly_payment \in Payments
    /\ interest_rate \in Rates
    /\ end_date \in EndDates(today) \cup {NotADate}
    /\ pc = "validate"
    /\ Locals

ValidatorSpec == ValidatorInit /\ [][Validate]_vars

(***************************************************************************)
(* Properties.                                                             *)
(***************************************************************************)
Done == pc = "done"

\* the mode's function was called and returned
Computed == Done /\ result.kind \notin {"error", "exception"}

BigAbsDiff(u, v) == IF BigCmp(u, v) >= 0 THEN BigSub(u, v) ELSE BigSub(v, u)

\* x mills is within half a cent of a / b mills
WithinHalfCent(x, a, b) ==
    /\ x >= 0
    /\ x % MillsPerCent = 0
    /\ BigCmp(BigMulSmall(BigAbsDiff(BigMul(BigOf(x), b), a), 2),
              BigMulSmall(b, MillsPerCent)) <= 0

\* the payment in the fields was solved for the loan of 24000 at 6% over 24 months
SolvedLongLoan ==
    /\ solved # None
    /\ balance = LongBalance
    /\ solved.rate = LongRate
    /\ solved.end_date = MonthsAfter(today, LongHorizon)

(* C1, as stated: for balance 24000, rate 6% and a target 24 months ahead, the
   payoff simulator run on the solved payment leaves its loop after exactly 24
   iterations with balance 0 and returns the first day of the 24th month. *)
PayoffInTwentyFour ==
    (Done /\ current_mode = "End Date" /\ SolvedLongLoan)
        => /\ count = LongHorizon
           /\ sim_balance = 0
           /\ result = MonthsAfter(today, LongHorizon)

(* C1, amended: for that loan the solved payment is 1063.69 and the payoff
   simulator leaves its loop after exactly 25 iterations with balance 0,
   returning the first day of the 25th month, one month past the target. *)
PayoffInTwentyFive ==
    (Done /\ current_mode = "End Date" /\ SolvedLongLoan)
        => /\ monthly_payment = Float(1063690)
           /\ count = LongHorizon + 1
           /\ sim_balance = 0
           /\ result = MonthsAfter(today, LongHorizon + 1)

PayoffOfLongLoanReturned ==
    /\ Done /\ current_mode = "End Date" /\ SolvedLongLoan
    /\ result.kind = "date"
    /\ count > LongHorizon

RECURSIVE SumPrincipal(_, _)
SumPrincipal(lo, hi) ==
    IF lo > hi THEN 0
    ELSE IF lo = hi THEN rows[lo].principal
    ELSE SumPrincipal(lo, (lo + hi) \div 2) + SumPrincipal(((lo + hi) \div 2) + 1, hi)

ScheduleShown == Done /\ current_mode = "Interest Breakdown" /\ result = Schedule

(* C2: in every schedule produced, the last row's remaining balance is 0 and
   the principal column sums to the original balance up to one cent per row. *)
ScheduleTotals ==
    ScheduleShown
        => /\ rows # <<>>
           /\ rows[Len(rows)].balance = 0
           /\ Abs(SumPrincipal(1, Len(rows)) - balance) <= Len(rows) * MillsPerCent

ScheduleOfSeveralRowsShown ==
    /\ ScheduleShown
    /\ Len(rows) > 2
    /\ SumPrincipal(1, Len(rows)) # balance
    /\ rows[Len(rows)].balance = 0

(* C3, as stated: the schedule has exactly as many rows as the payoff
   simulator ran iterations, and its last row is dated in the payoff month. *)
RowPerIteration ==
    ScheduleShown
        => /\ Len(rows) = count
           /\ rows[Len(rows)].date.year = end_date_calc.year
           /\ rows[Len(rows)].date.month = end_date_calc.month

(* C3, amended: the schedule has one row for every calendar month from
   increment_month(today) on, at least one row and at most as many rows as the
   payoff simulator ran iterations, so that its last row is dated in the
   payoff month or before it. *)
RowsWithinIterations ==
    ScheduleShown
        => /\ end_date_calc = MonthsAfter(today, count)
           /\ Len(rows) >= 1
           /\ Len(rows) <= count
           /\ \A i \in 1..Len(rows) : rows[i].date = MonthsAfter(today, i)
           /\ DateLE(rows[Len(rows)].date, end_date_calc)

ScheduleEndsBeforePayoffMonth ==
    /\ ScheduleShown
    /\ SolvedLongLoan
    /\ Len(rows) = LongHorizon
    /\ count = LongHorizon + 1

\* monthly_payment compared with the first month's interest, balance * rate
FirstInterestCmp ==
    BigCmp(BigMul(BigOf(monthly_payment.v), MonthlyRate(RateOf(interest_rate)).d),
           BigMul(BigOf(balance), MonthlyRate(RateOf(interest_rate)).n))

SimulatedBelowInterest ==
    /\ Computed
    /\ current_mode = "End Date"
    /\ FirstInterestCmp <= 0

(* C4, as stated: whenever the payment does not exceed the first month's
   interest, the payoff simulator returns None. *)
BelowInterestIsNone == SimulatedBelowInterest => result = None

(* C4, amended: whenever the balance is a whole number of cents and the
   payment does not exceed the first month's interest, the payoff simulator
   returns None after at least one step that did not lower the balance; when
   the payment is below that interest, the check of the second iteration
   returns it. *)
BelowInterestOfCentsIsNone ==
    (SimulatedBelowInterest /\ balance % MillsPerCent = 0)
        => /\ result = None
           /\ count >= 1
           /\ sim_balance >= balance
           /\ FirstInterestCmp < 0 => count = 1

TenDollarPaymentRefused ==
    /\ SimulatedBelowInterest
    /\ balance = 10000 * MillsPerDollar
    /\ monthly_payment = Float(10 * MillsPerDollar)
    /\ interest_rate = Rate(12, 1)
    /\ result = None
    /\ count = 1

\* the rate the payment was solved for lies in the bracket [0.0001, 100]
InBracket(rate) ==
    /\ rate.num * BisectDen >= BisectLow * rate.den
    /\ rate.num * BisectDen <= BisectHigh * rate.den

RateSolvedBack ==
    /\ Computed
    /\ current_mode = "Interest Rate"
    /\ solved # None
    /\ InBracket(solved.rate)

RuleFails(i) ==
    CASE i = 1 -> balance <= 0
      [] i = 2 -> monthly_payment # None /\ monthly_payment.v <= 0
      [] i = 3 -> interest_rate # None /\ interest_rate.num <= 0
      [] i = 4 -> end_date # None /\ end_date.kind # "date"
      [] i = 5 -> end_date.kind = "date" /\ DateLE(end_date, today)

RuleMessage(i) ==
    CASE i = 1 -> "Balance must be a positive number."
      [] i = 2 -> "Monthly Payment must be greater than zero."
      [] i = 3 -> "Interest Rate must be greater than zero."
      [] i = 4 -> "Invalid End Date format."
      [] i = 5 -> "End Date must be in the future."

FailingRules == {i \in 1..5 : RuleFails(i)}

(* C6: validate_inputs returns the message of the first rule that fails, in
   the order balance, payment, rate, end date no date, end date not in the
   future (an absent payment or rate never fails), and None when none fails. *)
FirstFailureWins ==
    Done
        => IF FailingRules = {} THEN result = None
           ELSE result = Error(RuleMessage(CHOOSE i \in FailingRules :
                                              \A j \in FailingRules : i <= j))

BalanceMessageBeforePayment ==
    /\ Done
    /\ balance <= 0
    /\ monthly_payment = Float(0)
    /\ result = Error("Balance must be a positive number.")

NoHorizonCalled ==
    /\ Done
    /\ current_mode \in {"Monthly Payment", "Interest Rate"}
    /\ result.kind # "error"
    /\ end_date.kind = "date"
    /\ MonthsBetween(today, end_date) <= 0

(* C7: whenever months <= 0, the payment solver and the rate solver return
   None; a division by months, which would raise, is not evaluated. *)
NoHorizonIsNone == NoHorizonCalled => result = None

LaterThisMonthIsNone ==
    /\ NoHorizonCalled
    /\ current_mode = "Interest Rate"
    /\ monthly_payment # None
    /\ end_date.month = today.month /\ end_date.day > today.day
    /\ result = None

(* C8: the payoff simulator runs at most 1200 iterations; it returns a date
   exactly when the balance is 0 after fewer than 1200 iterations, that date
   being today advanced by the iteration count, and None in every other case. *)
SimulatorBounded ==
    /\ count <= max_months
    /\ (Computed /\ current_mode = "End Date")
          => /\ result.kind = "date" <=> (sim_balance = 0 /\ count < max_months)
             /\ result.kind = "date" => result = MonthsAfter(today, count)
             /\ result.kind # "date" => result = None

ZeroAtCapIsNone ==
    /\ Computed /\ current_mode = "End Date"
    /\ count = max_months
    /\ sim_balance = 0
    /\ result = None

\* day 1 of the calendar month after d's
FollowingMonth(d, e) ==
    /\ e.day = 1
    /\ d.month < 12 => e.year = d.year /\ e.month = d.month + 1
    /\ d.month = 12 => e.year = d.year + 1 /\ e.month = 1

(* C9: increment_month(d) is day 1 of the month following d's, January of the
   next year after December; every date of the payoff simulator and every
   row date has day 1, and consecutive rows are one month apart. *)
MonthStepper ==
    /\ FollowingMonth(today, increment_month(today))
    /\ FollowingMonth(current, increment_month(current))
    /\ FollowingMonth(current_date, increment_month(current_date))
    /\ count > 0 => current = MonthsAfter(today, count)
    /\ \A i \in 1..Len(rows) : rows[i].date.day = 1
    /\ rows # <<>> => rows[Len(rows)].date = MonthsAfter(today, Len(rows))
    /\ Len(rows) > 1 => FollowingMonth(rows[Len(rows) - 1].date, rows[Len(rows)].date)

RowsAcrossNewYear ==
    /\ Len(rows) >= 3
    /\ rows[1].date.month = 12
    /\ rows[2].date.year = today.year + 1
    /\ count >= 3

\* x mills is v mills rounded to cents
NearestCent(x, v) == x % MillsPerCent = 0 /\ 2 * Abs(x - v) <= MillsPerCent

\* the last row appended, and the balance it started from
LastRow == rows[Len(rows)]
BalanceBefore == IF Len(rows) = 1 THEN balance ELSE rows[Len(rows) - 1].balance

OrdinaryRow == rows # <<>> /\ ~LastRow.final

(* C10, as stated: a row of the non-final branch records the supplied payment,
   the interest round(balance * rate, 2), the principal payment minus that
   recorded interest, and the balance max(0, round(balance - principal, 2));
   a row with another payment is the last row. *)
RowOfRoundedInterest ==
    /\ OrdinaryRow
          => LET r == MonthlyRate(RateOf(interest_rate))
             IN  /\ LastRow.payment = monthly_payment.v
                 /\ WithinHalfCent(LastRow.interest, BigMul(BigOf(BalanceBefore), r.n), r.d)
                 /\ LastRow.principal = monthly_payment.v - LastRow.interest
                 /\ NearestCent(LastRow.balance, Max(0, BalanceBefore - LastRow.principal))
    /\ (rows # <<>> /\ LastRow.payment # monthly_payment.v) => Done

(* C10, amended: a row of the non-final branch records the supplied payment
   rounded to cents, the interest round(balance * rate, 2), a principal
   round(payment - balance * rate, 2), which is within one cent of the
   recorded payment minus the recorded interest, and the balance
   max(0, round(balance - (payment - balance * rate), 2)); a row of the final
   branch is the last row. *)
RowOfUnroundedInterest ==
    /\ OrdinaryRow
          => LET r == MonthlyRate(RateOf(interest_rate))
                 int == BigMul(BigOf(BalanceBefore), r.n)
                 paid == BigMul(BigOf(monthly_payment.v), r.d)
                 grown == BigMul(BigOf(BalanceBefore), BigAdd(r.d, r.n))
             IN  /\ WithinHalfCent(LastRow.payment, BigOf(monthly_payment.v), <<1>>)
                 /\ WithinHalfCent(LastRow.interest, int, r.d)
                 /\ BigCmp(paid, int) >= 0
                       => WithinHalfCent(LastRow.principal, BigSub(paid, int), r.d)
                 /\ Abs(LastRow.principal - (LastRow.payment - LastRow.interest))
                       <= MillsPerCent
                 /\ IF BigCmp(grown, paid) <= 0 THEN LastRow.balance = 0
                    ELSE WithinHalfCent(LastRow.balance, BigSub(grown, paid), r.d)
    /\ (rows # <<>> /\ LastRow.final) => (Done /\ LastRow.balance = 0)

RowOffByACent ==
    /\ OrdinaryRow
    /\ monthly_payment = TiePayment
    /\ LastRow.payment = monthly_payment.v
    /\ LastRow.principal # LastRow.payment - LastRow.interest

====
